---------------------------- MODULE Spec2Model ----------------------------
(***************************************************************************)
(* EchoNote blog: slug assignment (apps/common/models.py), the Post save   *)
(* hook and view counter (apps/blog/models.py, apps/blog/views.py) and the *)
(* two-level moderated comment thread (apps/blog/views.py, admin.py).      *)
(*                                                                         *)
(* Every database statement is one atomic step; a handler that issues      *)
(* several statements is a process that moves through them, so that other  *)
(* handlers interleave between its statements as they do in production.    *)
(***************************************************************************)
EXTENDS Integers, Sequences, FiniteSets, TLC

(***************************************************************************)
(* Bounds of the model.                                                    *)
(***************************************************************************)
MaxClock == 2
MaxSlugRows == 3
MaxViews == 2
MaxComments == 3
MaxListed == 2

(***************************************************************************)
(* Program constants.                                                      *)
(***************************************************************************)
SlugTruncLen == 50
WordsPerMinute == 200

\* Two request handlers run at a time.
Procs == {1, 2}
NoTime == 0
NoPk == 0
Status == {"draft", "scheduled", "published"}

(***************************************************************************)
(* Text.  A string is a sequence of one-character strings.                 *)
(***************************************************************************)
EmptyStr == << >>
UpperToLower == [c \in {"A", "B", "H"} |->
                   CASE c = "A" -> "a" [] c = "B" -> "b" [] OTHER -> "h"]
Digits == {"0", "1", "2", "3", "4", "5", "6", "7", "8", "9"}
LowerLetters == {"a", "b", "h", "i", "t", "e", "m"}
WordChars == LowerLetters \cup Digits \cup {"_"}
SpaceChars == {" "}
AsciiChars == WordChars \cup DOMAIN UpperToLower \cup SpaceChars \cup {"-", "!"}

Lower(c) == IF c \in DOMAIN UpperToLower THEN UpperToLower[c] ELSE c

RECURSIVE MapLower(_)
MapLower(s) == IF s = << >> THEN << >> ELSE <<Lower(Head(s))>> \o MapLower(Tail(s))

IsAscii(c) == c \in AsciiChars
IsKept(c) == c \in WordChars \cup SpaceChars \cup {"-"}
IsSep(c) == c \in SpaceChars \cup {"-"}

\* re.sub(r"[-\s]+", "-", value): every maximal run of hyphens and
\* whitespace becomes one hyphen.
RECURSIVE CollapseSeps(_)
CollapseSeps(s) ==
    IF s = << >> THEN << >>
    ELSE IF IsSep(Head(s))
         THEN IF Tail(s) # << >> /\ IsSep(Head(Tail(s)))
              THEN CollapseSeps(Tail(s))
              ELSE <<"-">> \o CollapseSeps(Tail(s))
         ELSE <<Head(s)>> \o CollapseSeps(Tail(s))

RECURSIVE LStrip(_)
LStrip(s) == IF s # << >> /\ Head(s) \in {"-", "_"} THEN LStrip(Tail(s)) ELSE s

RECURSIVE RStrip(_)
RStrip(s) == IF s # << >> /\ s[Len(s)] \in {"-", "_"}
             THEN RStrip(SubSeq(s, 1, Len(s) - 1)) ELSE s

\* django.utils.text.slugify(value) with allow_unicode=False: NFKD + ascii
\* "ignore" drops what is not ASCII, lower(), drop [^\w\s-], collapse
\* [-\s]+ to "-", strip "-" and "_" at both ends.
slugify(value) ==
    RStrip(LStrip(CollapseSeps(SelectSeq(MapLower(SelectSeq(value, IsAscii)), IsKept))))

Truncate(s, n) == SubSeq(s, 1, IF Len(s) < n THEN Len(s) ELSE n)

\* str(idx) of f"{base}-{idx}".
DigitChar == <<"0", "1", "2", "3", "4", "5", "6", "7", "8", "9">>
RECURSIVE IntToStr(_)
IntToStr(n) == IF n < 10 THEN <<DigitChar[n + 1]>>
               ELSE IntToStr(n \div 10) \o <<DigitChar[(n % 10) + 1]>>

\* The mutated base of C1: the "item" fallback is missing.
SlugBase_nofallback(source) == Truncate(slugify(source), SlugTruncLen)

\* base = slugify(self.get_slug_source())[:50] or "item"
SlugBase(source) ==
    IF Truncate(slugify(source), SlugTruncLen) = << >>
    THEN <<"i", "t", "e", "m">>
    ELSE Truncate(slugify(source), SlugTruncLen)

\* The mutated suffix of C29: the candidate never changes.
Suffixed_stuck(base, idx) == base

\* The mutated suffix of C13: the numbering starts one too low.
Suffixed_fromzero(base, idx) == base \o <<"-">> \o IntToStr(idx - 1)

\* candidate = f"{base}-{idx}"
Suffixed(base, idx) == base \o <<"-">> \o IntToStr(idx)

(***************************************************************************)
(* The body of a post: plain text, rendered and measured.                  *)
(***************************************************************************)
IsSpace(c) == c \in SpaceChars

\* len(text.split()): the maximal runs of characters that are not whitespace.
WordCount(text) ==
    Cardinality({k \in DOMAIN text :
                   /\ ~IsSpace(text[k])
                   /\ (k = 1 \/ IsSpace(text[k - 1]))})

\* The mutated estimate of C16: the quotient is cut, not rounded.
estimate_reading_time_floor(text) ==
    IF WordCount(text) \div WordsPerMinute < 1 THEN 1
    ELSE WordCount(text) \div WordsPerMinute

\* max(1, int(round(words / 200.0))): round() of Python takes the nearest
\* integer, and of two equally near the even one.
estimate_reading_time(text) ==
    LET words == WordCount(text)
        q == words \div WordsPerMinute
        r == words % WordsPerMinute
        rounded == IF 2 * r < WordsPerMinute THEN q
                   ELSE IF 2 * r > WordsPerMinute THEN q + 1
                   ELSE IF q % 2 = 0 THEN q ELSE q + 1
    IN IF rounded < 1 THEN 1 ELSE rounded

\* text.strip()
Strip(text) ==
    LET inked == {k \in DOMAIN text : ~IsSpace(text[k])}
    IN IF inked = {} THEN << >>
       ELSE SubSeq(text, CHOOSE k \in inked : \A j \in inked : k <= j,
                         CHOOSE k \in inked : \A j \in inked : k >= j)

\* md.markdown(text or "") of a text without markup: nothing for a blank
\* text, else the stripped text as one paragraph.
render_markdown(text) ==
    IF Strip(text) = << >> THEN << >>
    ELSE <<"<p>">> \o Strip(text) \o <<"</p>">>

(***************************************************************************)
(* Storage.  A table is a sequence indexed by primary key; a deleted row   *)
(* leaves a tombstone, so that keys are never handed out twice.            *)
(***************************************************************************)
VARIABLES
    now,        \* the clock (timezone.now())
    posts,      \* table of Post
    cats,       \* table of Category
    comments,   \* table of Comment
    proc,       \* per request handler: the model instance it holds, its step
    req,        \* per request handler: a comment submission in flight
    last        \* the response of the handler that completed last

vars == <<now, posts, cats, comments, proc, req, last>>

\* A row of Post; its body is empty, rendered and measured, unless set, and
\* the other columns have their defaults: not featured, no category (0),
\* comments allowed.  tags stands for the rows of the tagging table.
PostRow(title, slug, status, published_at, views) ==
    [alive |-> TRUE, title |-> title, slug |-> slug, status |-> status,
     published_at |-> published_at, views |-> views,
     body_markdown |-> EmptyStr, body_html |-> EmptyStr, reading_time |-> 1,
     is_featured |-> FALSE, category |-> 0, allow_comment |-> TRUE, tags |-> {}]
DeadPost == [alive |-> FALSE, title |-> EmptyStr, slug |-> EmptyStr,
             status |-> "draft", published_at |-> NoTime, views |-> 0,
             body_markdown |-> EmptyStr, body_html |-> EmptyStr, reading_time |-> 1,
             is_featured |-> FALSE, category |-> 0, allow_comment |-> TRUE, tags |-> {}]

CategoryRow(name, slug) == [alive |-> TRUE, name |-> name, slug |-> slug]
DeadCategory == [alive |-> FALSE, name |-> EmptyStr, slug |-> EmptyStr]

\* A model instance in a handler's memory (Post uses title, Category name).
Inst(pk, title, name, slug, status, published_at, views) ==
    [pk |-> pk, title |-> title, name |-> name, slug |-> slug,
     status |-> status, published_at |-> published_at, views |-> views,
     body_markdown |-> EmptyStr, body_html |-> EmptyStr, reading_time |-> 1,
     is_featured |-> FALSE, category |-> 0, allow_comment |-> TRUE]
BlankInst == Inst(NoPk, EmptyStr, EmptyStr, EmptyStr, "draft", NoTime, 0)

IdleProc == [pc |-> "idle", kind |-> "none", inst |-> BlankInst,
             base |-> EmptyStr, cand |-> EmptyStr, idx |-> 0, probed |-> FALSE]

\* A response: the handler, its outcome, and of the request what the
\* outcome is judged by.
Resp(op, result) ==
    [op |-> op, result |-> result, probed |-> FALSE,
     given |-> FALSE, found |-> FALSE, approvedIn |-> FALSE, again |-> FALSE,
     cascaded |-> FALSE]

Table(kind) == IF kind = "Category" THEN cats ELSE posts

Alive(tbl) == {i \in DOMAIN tbl : tbl[i].alive}

(***************************************************************************)
(* SluggedModel                                                            *)
(***************************************************************************)
\* Post.get_slug_source / Category.get_slug_source
get_slug_source(kind, inst) == IF kind = "Category" THEN inst.name ELSE inst.title

\* Model.objects.filter(slug=candidate).exclude(pk=self.pk).exists()
SlugExists(tbl, pk, candidate) ==
    \E i \in Alive(tbl) : i # pk /\ tbl[i].slug = candidate

\* The mutated constraint of C10: the slug column is not unique.
SlugUniqueViolation_off(tbl, pk, slug) == FALSE

\* slug = models.SlugField(unique=True): the storage refuses a row whose
\* slug another row holds.
SlugUniqueViolation(tbl, pk, slug) ==
    \E i \in Alive(tbl) : i # pk /\ tbl[i].slug = slug

\* name = models.CharField(unique=True) of Category
NameUniqueViolation(tbl, pk, name) ==
    \E i \in Alive(tbl) : i # pk /\ tbl[i].name = name

\* self.body_html = ...; self.reading_time = ... of Post.save
Derived(inst) ==
    [inst EXCEPT !.body_html = render_markdown(inst.body_markdown),
                 !.reading_time = estimate_reading_time(inst.body_markdown)]

\* The mutated stamp of C25: every save to published stamps anew.
Stamped_always(inst, t) ==
    IF inst.status = "published"
    THEN [inst EXCEPT !.published_at = t]
    ELSE inst

\* if self.status == PUBLISHED and not self.published_at: ... of Post.save
Stamped(inst, t) ==
    IF inst.status = "published" /\ inst.published_at = NoTime
    THEN [inst EXCEPT !.published_at = t]
    ELSE inst

\* The mutated hook of C6: published_at is never stamped.
PostSaveHook_nostamp(inst, t) == Derived(inst)

\* The mutated hook of C15: the derived fields are not recomputed.
PostSaveHook_norender(inst, t) == Stamped(inst, t)

\* Post.save, up to super().save(): stamp published_at, render the body,
\* estimate the reading time.
PostSaveHook(inst, t) == Derived(Stamped(inst, t))

\* The mutated save of C11: the slug is generated at every save.
EnterSave_reslug(p, kind, inst) ==
    proc' = [proc EXCEPT ![p] =
        [pc |-> "probe", kind |-> kind, inst |-> inst,
         base |-> SlugBase(get_slug_source(kind, inst)),
         cand |-> SlugBase(get_slug_source(kind, inst)),
         idx |-> 1, probed |-> TRUE]]

\* SluggedModel.save calls generate_unique_slug only for an empty slug; the
\* handler then stands before the first probe, or before the write.
EnterSave(p, kind, inst) ==
    proc' = [proc EXCEPT ![p] =
        IF inst.slug = EmptyStr
        THEN [pc |-> "probe", kind |-> kind, inst |-> inst,
              base |-> SlugBase(get_slug_source(kind, inst)),
              cand |-> SlugBase(get_slug_source(kind, inst)),
              idx |-> 1, probed |-> TRUE]
        ELSE [pc |-> "write", kind |-> kind, inst |-> inst,
              base |-> EmptyStr, cand |-> EmptyStr, idx |-> 0, probed |-> FALSE]]

\* Post(title=..., body_markdown=..., status=..., published_at=...,
\*      slug=...).save()
CreatePost(p, title, body, status, published_at, slug) ==
    /\ proc[p].pc = "idle"
    /\ EnterSave(p, "Post",
           PostSaveHook([Inst(NoPk, title, EmptyStr, slug, status, published_at, 0)
                             EXCEPT !.body_markdown = body], now))
    /\ UNCHANGED <<now, posts, cats, comments, req, last>>

\* Category(name=...).save()
CreateCategory(p, name) ==
    /\ proc[p].pc = "idle"
    /\ EnterSave(p, "Category", Inst(NoPk, EmptyStr, name, EmptyStr, "draft", NoTime, 0))
    /\ UNCHANGED <<now, posts, cats, comments, req, last>>

\* One evaluation of the while condition of generate_unique_slug, and the
\* loop body when it is true.
Probe(p) ==
    /\ proc[p].pc = "probe"
    /\ IF SlugExists(Table(proc[p].kind), proc[p].inst.pk, proc[p].cand)
       THEN proc' = [proc EXCEPT ![p].cand = Suffixed(proc[p].base, proc[p].idx),
                                 ![p].idx = proc[p].idx + 1]
       ELSE proc' = [proc EXCEPT ![p].pc = "write",
                                 ![p].inst.slug = proc[p].cand]
    /\ UNCHANGED <<now, posts, cats, comments, req, last>>

\* Model.save of a Post: UPDATE the row of the instance's pk; INSERT when
\* the instance has no pk or no row has it.  All columns are written.
PostWrite(p) ==
    /\ proc[p].pc = "write"
    /\ proc[p].kind = "Post"
    /\ LET i == proc[p].inst
           row == [PostRow(i.title, i.slug, i.status, i.published_at, i.views)
                      EXCEPT !.body_markdown = i.body_markdown,
                             !.body_html = i.body_html,
                             !.reading_time = i.reading_time,
                             !.is_featured = i.is_featured,
                             !.category = i.category,
                             !.allow_comment = i.allow_comment,
                             !.tags = IF i.pk \in Alive(posts)
                                      THEN posts[i.pk].tags ELSE {}]
       IN IF SlugUniqueViolation(posts, i.pk, i.slug)
          THEN /\ posts' = posts
               /\ last' = [Resp("save", "IntegrityError") EXCEPT
                              !.probed = proc[p].probed]
          ELSE IF i.pk = NoPk
          THEN /\ posts' = Append(posts, row)
               /\ last' = [Resp("save", "ok") EXCEPT
                              !.probed = proc[p].probed]
          ELSE /\ posts' = [posts EXCEPT ![i.pk] = row]
               /\ last' = [Resp("save", "ok") EXCEPT
                              !.probed = proc[p].probed]
    /\ proc' = [proc EXCEPT ![p] = IdleProc]
    /\ UNCHANGED <<now, cats, comments, req>>

\* Model.save of a Category.
CategoryWrite(p) ==
    /\ proc[p].pc = "write"
    /\ proc[p].kind = "Category"
    /\ LET i == proc[p].inst
           row == CategoryRow(i.name, i.slug)
       IN IF \/ SlugUniqueViolation(cats, i.pk, i.slug)
             \/ NameUniqueViolation(cats, i.pk, i.name)
          THEN /\ cats' = cats
               /\ last' = [Resp("save", "IntegrityError") EXCEPT
                              !.probed = proc[p].probed]
          ELSE /\ cats' = Append(cats, row)
               /\ last' = [Resp("save", "ok") EXCEPT
                              !.probed = proc[p].probed]
    /\ proc' = [proc EXCEPT ![p] = IdleProc]
    /\ UNCHANGED <<now, posts, comments, req>>

(***************************************************************************)
(* Editing a stored Post; the detail view; deletion; the clock.            *)
(***************************************************************************)
AsInst(id, row) ==
    [Inst(id, row.title, EmptyStr, row.slug, row.status, row.published_at, row.views)
        EXCEPT !.body_markdown = row.body_markdown,
               !.body_html = row.body_html,
               !.reading_time = row.reading_time,
               !.is_featured = row.is_featured,
               !.category = row.category,
               !.allow_comment = row.allow_comment]

\* Post.objects.get(pk=id): the handler now holds an instance of the row.
LoadPost(p, id) ==
    /\ proc[p].pc = "idle"
    /\ id \in Alive(posts)
    /\ proc' = [proc EXCEPT ![p] = [IdleProc EXCEPT !.pc = "loaded", !.kind = "Post",
                                                    !.inst = AsInst(id, posts[id])]]
    /\ UNCHANGED <<now, posts, cats, comments, req, last>>

\* post.title = ...; post.body_markdown = ...; post.status = ...;
\* post.save() on a loaded instance.
SavePost(p, title, body, status) ==
    /\ proc[p].pc = "loaded"
    /\ EnterSave(p, "Post",
           PostSaveHook([proc[p].inst EXCEPT !.title = title,
                                             !.body_markdown = body,
                                             !.status = status], now))
    /\ UNCHANGED <<now, posts, cats, comments, req, last>>

\* The change form of PostAdmin on a loaded instance: post.status = ...;
\* post.is_featured = ...; post.category = ...; post.save().
EditPost(p, status, is_featured, category) ==
    /\ proc[p].pc = "loaded"
    /\ EnterSave(p, "Post",
           PostSaveHook([proc[p].inst EXCEPT !.status = status,
                                             !.is_featured = is_featured,
                                             !.category = category], now))
    /\ UNCHANGED <<now, posts, cats, comments, req, last>>

\* PostDetailView.get_object: the view holds the post it will render.
DetailGet(p, id) ==
    /\ proc[p].pc = "idle"
    /\ id \in Alive(posts)
    /\ proc' = [proc EXCEPT ![p] = [IdleProc EXCEPT !.pc = "viewing", !.kind = "Post",
                                                    !.inst = AsInst(id, posts[id])]]
    /\ UNCHANGED <<now, posts, cats, comments, req, last>>

\* Post.objects.filter(pk=post.pk).update(views=post.views + 1)
DetailUpdate(p) ==
    /\ proc[p].pc = "viewing"
    /\ LET i == proc[p].inst
       IN posts' = IF i.pk \in Alive(posts)
                   THEN [posts EXCEPT ![i.pk].views = i.views + 1]
                   ELSE posts
    /\ last' = Resp("view", "ok")
    /\ proc' = [proc EXCEPT ![p] = IdleProc]
    /\ UNCHANGED <<now, cats, comments, req>>

Tick ==
    /\ now < MaxClock
    /\ now' = now + 1
    /\ UNCHANGED <<posts, cats, comments, proc, req, last>>

(***************************************************************************)
(* Comments                                                                *)
(***************************************************************************)
\* A row of Comment; user, nickname and email say whether the column is
\* filled, and are blank unless set.
CommentRow(post, parent, is_approved, created_at) ==
    [alive |-> TRUE, post |-> post, parent |-> parent,
     is_approved |-> is_approved, created_at |-> created_at,
     user |-> FALSE, nickname |-> FALSE, email |-> FALSE]
DeadComment == [alive |-> FALSE, post |-> 0, parent |-> 0,
                is_approved |-> FALSE, created_at |-> NoTime,
                user |-> FALSE, nickname |-> FALSE, email |-> FALSE]

IdleReq == [pc |-> "idle", post |-> 0, parent_id |-> 0, parent |-> 0,
            user |-> FALSE, nickname |-> FALSE, email |-> FALSE]

\* form.save(commit=False); comment.user = request.user: the row carries
\* the author the request r gave.
Authored(row, r) ==
    [row EXCEPT !.user = r.user, !.nickname = r.nickname, !.email = r.email]

\* The mutated form of C18: nickname and email are never required.
FormValid_unchecked(auth, content, nickname, email) == content

\* CommentForm.is_valid: content is required; nickname and email are
\* required of a guest.
FormValid(auth, content, nickname, email) ==
    content /\ (auth \/ (nickname /\ email))

\* The mutated lookup of C3: the parent may itself be a reply.
ParentLookup_anydepth(post, parent_id) ==
    IF /\ parent_id \in Alive(comments)
       /\ comments[parent_id].post = post
       /\ comments[parent_id].is_approved
    THEN parent_id ELSE 0

\* The mutated lookup of C2: the parent need not be approved.
ParentLookup_unapproved(post, parent_id) ==
    IF /\ parent_id \in Alive(comments)
       /\ comments[parent_id].post = post
       /\ comments[parent_id].parent = 0
    THEN parent_id ELSE 0

\* The mutated lookup of C26: the parent may belong to another post.
ParentLookup_anypost(post, parent_id) ==
    IF /\ parent_id \in Alive(comments)
       /\ comments[parent_id].is_approved
       /\ comments[parent_id].parent = 0
    THEN parent_id ELSE 0

\* Comment.objects.filter(id=int(parent_id), post=post, is_approved=True,
\*                        parent__isnull=True).first()
ParentLookup(post, parent_id) ==
    IF /\ parent_id \in Alive(comments)
       /\ comments[parent_id].post = post
       /\ comments[parent_id].is_approved
       /\ comments[parent_id].parent = 0
    THEN parent_id ELSE 0

\* The mutated assignment of C5: the submitted approval value is kept.
SubmittedApproval_kept(approvedIn) == approvedIn

\* fields = ["content", "nickname", "email"]; comment.is_approved = False
SubmittedApproval(approvedIn) == FALSE

\* submit_comment up to the parent lookup: get_object_or_404 and form.is_valid.
SubmitBegin(p, post, parent_id, auth, content, nickname, email) ==
    /\ req[p].pc = "idle"
    /\ IF post \notin Alive(posts)
       THEN /\ last' = [Resp("submit", "404") EXCEPT !.given = (parent_id # 0)]
            /\ req' = req
       ELSE IF ~FormValid(auth, content, nickname, email)
       THEN /\ last' = [Resp("submit", "invalid") EXCEPT !.given = (parent_id # 0)]
            /\ req' = req
       ELSE /\ last' = last
            /\ req' = [req EXCEPT ![p] =
                         [pc |-> IF parent_id # 0 THEN "parent" ELSE "insert",
                          post |-> post, parent_id |-> parent_id, parent |-> 0,
                          user |-> auth, nickname |-> nickname, email |-> email]]
    /\ UNCHANGED <<now, posts, cats, comments, proc>>

\* if parent_id and parent_id.isdigit(): parent = ...first();
\* if parent: comment.parent = parent
SubmitParent(p) ==
    /\ req[p].pc = "parent"
    /\ req' = [req EXCEPT ![p].pc = "insert",
                          ![p].parent = ParentLookup(req[p].post, req[p].parent_id)]
    /\ UNCHANGED <<now, posts, cats, comments, proc, last>>

\* comment.is_approved = False; comment.save(): the INSERT, refused by the
\* foreign keys when the post or the parent is gone.  approvedIn is the
\* approval value the POST data carry.
SubmitInsert(p, approvedIn) ==
    /\ req[p].pc = "insert"
    /\ LET r == req[p]
           resp == [Resp("submit", "ok") EXCEPT
                      !.given = (r.parent_id # 0), !.found = (r.parent # 0),
                      !.approvedIn = approvedIn]
       IN IF \/ r.post \notin Alive(posts)
             \/ (r.parent # 0 /\ r.parent \notin Alive(comments))
          THEN /\ comments' = comments
               /\ last' = [resp EXCEPT !.result = "IntegrityError"]
          ELSE /\ comments' = Append(comments,
                      Authored(CommentRow(r.post, r.parent,
                                          SubmittedApproval(approvedIn), now), r))
               /\ last' = resp
    /\ req' = [req EXCEPT ![p] = IdleReq]
    /\ UNCHANGED <<now, posts, cats, proc>>

\* The mutated action of C19: the update is not limited to the selection.
Approve_all(c) ==
    /\ c \in DOMAIN comments
    /\ comments' = [d \in DOMAIN comments |->
                      IF comments[d].alive
                      THEN [comments[d] EXCEPT !.is_approved = TRUE]
                      ELSE comments[d]]
    /\ last' = [Resp("approve", "ok") EXCEPT
                   !.again = (comments[c].alive /\ comments[c].is_approved)]
    /\ UNCHANGED <<now, posts, cats, proc, req>>

\* The mutated action of C20: the action flips the approval.
Approve_toggle(c) ==
    /\ c \in DOMAIN comments
    /\ comments' = IF comments[c].alive
                   THEN [comments EXCEPT ![c].is_approved = ~comments[c].is_approved]
                   ELSE comments
    /\ last' = [Resp("approve", "ok") EXCEPT
                   !.again = (comments[c].alive /\ comments[c].is_approved)]
    /\ UNCHANGED <<now, posts, cats, proc, req>>

\* CommentAdmin.approve_comments on one selected comment:
\* queryset.update(is_approved=True).  The response notes whether the
\* comment was approved already.
Approve(c) ==
    /\ c \in DOMAIN comments
    /\ comments' = IF comments[c].alive
                   THEN [comments EXCEPT ![c].is_approved = TRUE]
                   ELSE comments
    /\ last' = [Resp("approve", "ok") EXCEPT
                   !.again = (comments[c].alive /\ comments[c].is_approved)]
    /\ UNCHANGED <<now, posts, cats, proc, req>>

\* The mutated deletion of C23: the replies are left behind.
Cascade_shallow(S) == S

\* parent = ForeignKey("self", on_delete=CASCADE): the comments that go with
\* the comments of set S.
RECURSIVE Cascade(_)
Cascade(S) ==
    LET more == {c \in Alive(comments) : comments[c].parent \in S} \ S
    IN IF more = {} THEN S ELSE Cascade(S \cup more)

Without(S) == [c \in DOMAIN comments |-> IF c \in S THEN DeadComment ELSE comments[c]]

\* post.tags.add(tag): the tag is stored beside the row, with no save of
\* the post.
TagPost(id, tag) ==
    /\ id \in Alive(posts)
    /\ tag \notin posts[id].tags
    /\ posts' = [posts EXCEPT ![id].tags = @ \cup {tag}]
    /\ UNCHANGED <<now, cats, comments, proc, req, last>>

\* Deleting a comment in the admin.
DeleteComment(c) ==
    /\ c \in Alive(comments)
    /\ comments' = Without(Cascade({c}))
    /\ last' = [Resp("delete", "ok") EXCEPT
                   !.cascaded = (\E d \in Alive(comments) : comments[d].parent = c)]
    /\ UNCHANGED <<now, posts, cats, proc, req>>

\* Deleting a post in the admin: post = ForeignKey(Post, on_delete=CASCADE).
DeletePost(id) ==
    /\ id \in Alive(posts)
    /\ posts' = [posts EXCEPT ![id] = DeadPost]
    /\ comments' = Without(Cascade({c \in Alive(comments) : comments[c].post = id}))
    /\ last' = [Resp("delete_post", "ok") EXCEPT
                   !.cascaded = (\E d \in Alive(comments) : comments[d].post = id)]
    /\ UNCHANGED <<now, cats, proc, req>>

(***************************************************************************)
(* What the detail page lists.                                             *)
(***************************************************************************)
\* ordering = ["created_at"]; rows of equal created_at in key order.
Before(a, b) ==
    \/ comments[a].created_at < comments[b].created_at
    \/ (comments[a].created_at = comments[b].created_at /\ a < b)

RECURSIVE Ordered(_)
Ordered(S) ==
    IF S = {} THEN << >>
    ELSE LET first == CHOOSE a \in S : \A b \in S \ {a} : Before(a, b)
         IN <<first>> \o Ordered(S \ {first})

\* The mutated listing of C4: the approval filter is missing.
ListedComments_unfiltered(post) ==
    Ordered({c \in Alive(comments) : comments[c].post = post /\ comments[c].parent = 0})

\* Comment.objects.filter(post=post, is_approved=True, parent__isnull=True)
ListedComments(post) ==
    Ordered({c \in Alive(comments) :
               /\ comments[c].post = post
               /\ comments[c].is_approved
               /\ comments[c].parent = 0})

\* .prefetch_related("replies"): every reply of the comment.
PrefetchedReplies(c) == Ordered({r \in Alive(comments) : comments[r].parent = c})

IsApproved(r) == comments[r].is_approved

\* The page shows, beneath a listed comment, its approved replies.
ShownReplies(c) == SelectSeq(PrefetchedReplies(c), IsApproved)

(***************************************************************************)
(* Listings of posts.                                                      *)
(***************************************************************************)
\* The mutated filter of C21: the publication time is not compared.
published_statusonly(tbl, t) ==
    {i \in Alive(tbl) : tbl[i].status = "published"}

\* The mutated filter of C24: the publication time must be past.
published_strict(tbl, t) ==
    {i \in Alive(tbl) : /\ tbl[i].status = "published"
                        /\ tbl[i].published_at # NoTime
                        /\ tbl[i].published_at < t}

\* PostQuerySet.published at time t:
\* filter(status=PUBLISHED, published_at__lte=timezone.now()); a row whose
\* published_at is NULL satisfies no comparison.
published(tbl, t) ==
    {i \in Alive(tbl) : /\ tbl[i].status = "published"
                        /\ tbl[i].published_at # NoTime
                        /\ tbl[i].published_at <= t}

\* The mutated order of C22: equal keys are not told apart by the id.
SortsBefore_noid(tbl, a, b) ==
    IF tbl[a].is_featured # tbl[b].is_featured THEN tbl[a].is_featured
    ELSE tbl[a].published_at > tbl[b].published_at

\* order_by(F("is_featured").desc(nulls_last=True), "-published_at", "-id"):
\* row a comes before row b.  is_featured is never NULL; the rows compared
\* are those of published(), whose published_at is not NULL.
SortsBefore(tbl, a, b) ==
    IF tbl[a].is_featured # tbl[b].is_featured THEN tbl[a].is_featured
    ELSE IF tbl[a].published_at # tbl[b].published_at
    THEN tbl[a].published_at > tbl[b].published_at
    ELSE a > b

\* The sort of the database: rows that the order does not tell apart stay
\* in the order in which the scan met them.
Insert(tbl, sorted, x) ==
    LET k == Cardinality({j \in 1..Len(sorted) : ~SortsBefore(tbl, x, sorted[j])})
    IN SubSeq(sorted, 1, k) \o <<x>> \o SubSeq(sorted, k + 1, Len(sorted))

RECURSIVE featured_first(_, _)
\* PostQuerySet.featured_first over the rows in the order scan.
featured_first(tbl, scan) ==
    IF scan = << >> THEN << >>
    ELSE Insert(tbl, featured_first(tbl, SubSeq(scan, 1, Len(scan) - 1)),
                scan[Len(scan)])

\* The orders in which a scan can meet the rows of set S.
Scans(S) ==
    {scan \in [1..Cardinality(S) -> S] :
        \A i, j \in 1..Cardinality(S) : scan[i] = scan[j] => i = j}

\* PostListView.get_queryset at time t, the table being scanned in the order
\* scan: Post.objects.published()...featured_first()
PostList(t, scan) ==
    LET listed(i) == i \in published(posts, t)
    IN featured_first(posts, SelectSeq(scan, listed))

\* The main list as a set.
PostListed(t) ==
    {i \in DOMAIN posts :
        \E scan \in Scans(Alive(posts)) :
            \E k \in DOMAIN PostList(t, scan) : PostList(t, scan)[k] = i}

\* category_list at time t: get_object_or_404(Category, slug=slug), then
\* Post.objects.published().filter(category=cat); nothing on a 404.
category_list(t, slug) ==
    LET found == {c \in Alive(cats) : cats[c].slug = slug}
    IN IF found = {} THEN {}
       ELSE {i \in published(posts, t) : posts[i].category \in found}

\* tag_list at time t: Post.objects.published().filter(tags__in=[tag])
tag_list(t, tag) == {i \in published(posts, t) : tag \in posts[i].tags}

\* timezone.datetime(year, 1, 1): a year is two ticks of the clock, and the
\* clock starts in the last tick of year 1.
YearStart(year) == 2 * year - 2

\* archive_year at time t:
\* Post.objects.published().filter(published_at__gte=start, published_at__lt=end)
archive_year(t, year) ==
    {i \in published(posts, t) : /\ posts[i].published_at >= YearStart(year)
                                 /\ posts[i].published_at < YearStart(year + 1)}

\* text LIKE %q%, letters compared without case.
icontains(text, q) ==
    \E k \in 0..(Len(text) - Len(q)) :
        SubSeq(MapLower(text), k + 1, k + Len(q)) = MapLower(q)

\* The mutated search of C30: the words are looked for in every stored post.
search_unpublished(t, q) ==
    IF Strip(q) = << >> THEN published(posts, t)
    ELSE {i \in Alive(posts) : \/ icontains(posts[i].title, Strip(q))
                               \/ icontains(posts[i].body_markdown, Strip(q))}

\* search at time t: q = request.GET.get("q", "").strip();
\* qs = Post.objects.published();
\* if q: qs = qs.filter(Q(title__icontains=q) | Q(body_markdown__icontains=q))
search(t, q) ==
    IF Strip(q) = << >> THEN published(posts, t)
    ELSE {i \in published(posts, t) :
             \/ icontains(posts[i].title, Strip(q))
             \/ icontains(posts[i].body_markdown, Strip(q))}

\* PostSitemap.items at time t.
PostSitemap_items(t) == published(posts, t)

(***************************************************************************)
(* Specifications.                                                         *)
(***************************************************************************)
NoResp == Resp("none", "ok")

Init ==
    /\ now = 1
    /\ posts = << >>
    /\ cats = << >>
    /\ comments = << >>
    /\ proc = [p \in Procs |-> IdleProc]
    /\ req = [p \in Procs |-> IdleReq]
    /\ last = NoResp

\* Creations under way: each will take a key.
Creating(kind) ==
    Cardinality({p \in Procs : /\ proc[p].pc \in {"probe", "write"}
                               /\ proc[p].kind = kind
                               /\ proc[p].inst.pk = NoPk})

Hi == <<"H", "i">>
SlugTitles == {Hi, <<"!", "!">>}
SlugInputs == {EmptyStr, <<"h", "i">>}
CatNames == {<<"A", " ", "b">>, <<"a", "-", "b">>}

\* Rows stored and rows being created, of both tables.
Rows == Len(posts) + Len(cats) + Creating("Post") + Creating("Category")

\* Slug assignment: posts and categories created, edited and deleted.
Next ==
    \/ \E p \in Procs, t \in SlugTitles, s \in SlugInputs :
          /\ Rows < MaxSlugRows
          /\ CreatePost(p, t, EmptyStr, "draft", NoTime, s)
    \/ \E p \in Procs, n \in CatNames :
          /\ Rows < MaxSlugRows
          /\ CreateCategory(p, n)
    \/ \E p \in Procs : Probe(p)
    \/ \E p \in Procs : PostWrite(p)
    \/ \E p \in Procs : CategoryWrite(p)
    \/ \E p \in Procs, id \in DOMAIN posts : LoadPost(p, id)
    \/ \E p \in Procs, t \in SlugTitles : SavePost(p, t, EmptyStr, "draft")
    \/ \E id \in DOMAIN posts : DeletePost(id)

Spec == Init /\ [][Next]_vars

\* A title of as many letters as the base keeps, one with an underscore, and
\* the titles above.
LongTitle == [i \in 1..SlugTruncLen |-> "a"]
\* A title whose normalization is cut right after a separator.
CutTitle == [i \in 1..(SlugTruncLen - 1) |-> "a"] \o <<" ", "b">>
AssignTitles == SlugTitles \cup {LongTitle, CutTitle, <<"a", "_", "b">>}

\* Slug assignment as a function of the source and of the stored slugs: one
\* handler saves new posts one after the other, and posts are deleted
\* between its calls.
AssignNext ==
    \/ \E t \in AssignTitles :
          /\ Rows < MaxSlugRows
          /\ CreatePost(1, t, EmptyStr, "draft", NoTime, EmptyStr)
    \/ Probe(1)
    \/ PostWrite(1)
    \/ \E id \in DOMAIN posts :
          /\ proc[1].pc = "idle"
          /\ DeletePost(id)

AssignSpec == Init /\ [][AssignNext]_vars

\* A publication time the caller supplies, later than any the clock shows.
SuppliedTime == MaxClock + 2
PublishedAtInputs == {NoTime, SuppliedTime}

\* The life of one post, and its view counter.
LifeNext ==
    \/ \E p \in Procs, st \in Status, pa \in PublishedAtInputs :
          /\ Len(posts) + Creating("Post") = 0
          /\ CreatePost(p, Hi, EmptyStr, st, pa, EmptyStr)
    \/ \E p \in Procs : Probe(p)
    \/ \E p \in Procs : PostWrite(p)
    \/ \E p \in Procs, id \in DOMAIN posts : LoadPost(p, id)
    \/ \E p \in Procs, st \in Status : SavePost(p, proc[p].inst.title, EmptyStr, st)
    \/ \E p \in Procs, id \in DOMAIN posts :
          /\ posts[id].views < MaxViews
          /\ DetailGet(p, id)
    \/ \E p \in Procs : DetailUpdate(p)
    \/ Tick

LifeSpec == Init /\ [][LifeNext]_vars

\* Publication times a caller supplies: none, one the clock reaches, one it
\* does not.
TargetTimes == {NoTime, MaxClock, SuppliedTime}

\* What the listings show as time passes: one handler saves posts of every
\* status and publication time, and saves them again.
VisibleNext ==
    \/ \E st \in Status, pa \in TargetTimes :
          /\ Len(posts) + Creating("Post") < MaxListed
          /\ CreatePost(1, Hi, EmptyStr, st, pa, EmptyStr)
    \/ Probe(1)
    \/ PostWrite(1)
    \/ \E id \in DOMAIN posts : LoadPost(1, id)
    \/ \E st \in Status : SavePost(1, proc[1].inst.title, EmptyStr, st)
    \/ Tick

VisibleSpec == Init /\ [][VisibleNext]_vars

\* The order of the main list: one handler saves posts as drafts or
\* published, and puts them on and off the featured list, as time passes.
OrderNext ==
    \/ \E st \in {"draft", "published"} :
          /\ Len(posts) + Creating("Post") < MaxListed
          /\ CreatePost(1, Hi, EmptyStr, st, NoTime, EmptyStr)
    \/ Probe(1)
    \/ PostWrite(1)
    \/ \E id \in DOMAIN posts : LoadPost(1, id)
    \/ \E st \in {"draft", "published"}, f \in BOOLEAN :
          EditPost(1, st, f, proc[1].inst.category)
    \/ Tick

OrderSpec == Init /\ [][OrderNext]_vars

\* One category is stored and no post.
FilterInit ==
    /\ now = 1
    /\ posts = << >>
    /\ cats = <<CategoryRow(<<"a">>, <<"a">>)>>
    /\ comments = << >>
    /\ proc = [p \in Procs |-> IdleProc]
    /\ req = [p \in Procs |-> IdleReq]
    /\ last = NoResp

\* Title and body of the posts listed: the word in the title, in the body,
\* in neither.
FilterTexts == {<<Hi, EmptyStr>>, <<<<"!", "!">>, <<"h", "i", " ">>>>,
                <<<<"!", "!">>, EmptyStr>>}
FilterQueries == {EmptyStr, <<" ">>, <<"h", "i">>, <<" ", "H">>, <<"!">>, <<"b">>}
FilterSlugs == {<<"a">>, <<"b">>}
FilterTags == {"t"}
FilterYears == 1..3

\* What the listings show of one post: it is saved under every status and
\* publication time, put in the category and out of it, tagged, as time
\* passes.
FilterNext ==
    \/ \E tb \in FilterTexts, st \in Status, pa \in TargetTimes :
          /\ Len(posts) + Creating("Post") = 0
          /\ CreatePost(1, tb[1], tb[2], st, pa, EmptyStr)
    \/ Probe(1)
    \/ PostWrite(1)
    \/ \E id \in DOMAIN posts : LoadPost(1, id)
    \/ \E st \in Status, c \in 0..Len(cats) : EditPost(1, st, FALSE, c)
    \/ \E id \in DOMAIN posts, tag \in FilterTags : TagPost(id, tag)
    \/ Tick

FilterSpec == FilterInit /\ [][FilterNext]_vars

\* A text of n words, each followed by a run of two blanks.
Words(n) == [k \in 1..(4 * n) |-> IF k % 4 = 1 THEN "h"
                                  ELSE IF k % 4 = 2 THEN "i" ELSE " "]
Blank == <<" ", " ">>
BodyTexts == {EmptyStr, Words(1), <<" ">> \o Words(2)}

\* The body of one post, written and rewritten under every status by two
\* handlers, and viewed.
BodyNext ==
    \/ \E p \in Procs, b \in BodyTexts, st \in Status :
          /\ Len(posts) + Creating("Post") = 0
          /\ CreatePost(p, Hi, b, st, NoTime, EmptyStr)
    \/ \E p \in Procs : Probe(p)
    \/ \E p \in Procs : PostWrite(p)
    \/ \E p \in Procs, id \in DOMAIN posts : LoadPost(p, id)
    \/ \E p \in Procs, b \in BodyTexts, st \in Status :
          SavePost(p, proc[p].inst.title, b, st)
    \/ \E p \in Procs, id \in DOMAIN posts :
          /\ posts[id].views < MaxViews
          /\ DetailGet(p, id)
    \/ \E p \in Procs : DetailUpdate(p)

BodySpec == Init /\ [][BodyNext]_vars

\* Texts of no word, of one, and of about a half, one and a half, two and
\* two and a half times the words of a minute.
ReadingTexts ==
    {EmptyStr, Blank, Words(1), Words(WordsPerMinute \div 2),
     Words(WordsPerMinute + WordsPerMinute \div 2),
     Words(2 * WordsPerMinute - WordsPerMinute \div 4),
     Words(2 * WordsPerMinute),
     Words(2 * WordsPerMinute + WordsPerMinute \div 2)}

\* Saves that run to their end: one handler saves new posts of every body,
\* with the slug left empty or supplied, and saves them again; posts are
\* deleted between its calls.  The handler is a running thread: a step of
\* it that can be taken is taken.
SaveNext ==
    \/ \E b \in BodyTexts, slug \in {EmptyStr, <<"h", "i">>} :
          /\ Rows < MaxSlugRows
          /\ CreatePost(1, Hi, b, "draft", NoTime, slug)
    \/ Probe(1)
    \/ PostWrite(1)
    \/ \E id \in DOMAIN posts : LoadPost(1, id)
    \/ \E b \in BodyTexts : SavePost(1, proc[1].inst.title, b, "draft")
    \/ \E id \in DOMAIN posts :
          /\ proc[1].pc = "idle"
          /\ DeletePost(id)

SaveSpec ==
    /\ Init
    /\ [][SaveNext]_vars
    /\ WF_vars(Probe(1))
    /\ WF_vars(PostWrite(1))

\* The reading time as a function of the text: one handler saves one post
\* with each text, and again.
ReadNext ==
    \/ \E b \in ReadingTexts :
          /\ Len(posts) + Creating("Post") = 0
          /\ CreatePost(1, Hi, b, "draft", NoTime, EmptyStr)
    \/ Probe(1)
    \/ PostWrite(1)
    \/ \E id \in DOMAIN posts : LoadPost(1, id)
    \/ \E b \in ReadingTexts : SavePost(1, proc[1].inst.title, b, "draft")

ReadSpec == Init /\ [][ReadNext]_vars

\* Two published posts, saved one after the other, and no comment yet.
ThreadInit ==
    /\ now = 1
    /\ posts = <<PostRow(Hi, <<"h", "i">>, "published", 1, 0),
                 PostRow(Hi, <<"h", "i", "-", "1">>, "published", 1, 0)>>
    /\ cats = << >>
    /\ comments = << >>
    /\ proc = [p \in Procs |-> IdleProc]
    /\ req = [p \in Procs |-> IdleReq]
    /\ last = NoResp

\* The forms submitted to the thread: by a guest, by a guest without email,
\* by a guest without nickname, by a user without content.
Form(auth, content, nickname, email) ==
    [auth |-> auth, content |-> content, nickname |-> nickname, email |-> email]
GuestForm == Form(FALSE, TRUE, TRUE, TRUE)
Forms == {GuestForm, Form(FALSE, TRUE, TRUE, FALSE),
          Form(FALSE, TRUE, FALSE, TRUE), Form(TRUE, FALSE, FALSE, FALSE)}

Submitting == Cardinality({p \in Procs : req[p].pc # "idle"})

\* The comment thread of two posts: submissions, moderation, deletion.
ThreadNext ==
    \/ /\ Len(comments) + Submitting < MaxComments
       /\ \E p \in Procs :
            /\ req[p].pc = "idle"
            /\ \E post \in DOMAIN posts, parent_id \in 0..MaxComments, f \in Forms :
                 SubmitBegin(p, post, parent_id, f.auth, f.content, f.nickname, f.email)
    \/ \E p \in Procs : SubmitParent(p)
    \/ \E p \in Procs, approvedIn \in BOOLEAN : SubmitInsert(p, approvedIn)
    \/ \E c \in DOMAIN comments : Approve(c)
    \/ \E c \in DOMAIN comments : DeleteComment(c)
    \/ \E id \in DOMAIN posts : DeletePost(id)

ThreadSpec == ThreadInit /\ [][ThreadNext]_vars

\* Two published posts; the second was saved with allow_comment off.
GateInit ==
    /\ now = 1
    /\ posts = <<PostRow(Hi, <<"h", "i">>, "published", 1, 0),
                 [PostRow(Hi, <<"h", "i", "-", "1">>, "published", 1, 0)
                    EXCEPT !.allow_comment = FALSE]>>
    /\ cats = << >>
    /\ comments = << >>
    /\ proc = [p \in Procs |-> IdleProc]
    /\ req = [p \in Procs |-> IdleReq]
    /\ last = NoResp

\* Guests comment on and reply under both posts, and comments are approved.
GateNext ==
    \/ /\ Len(comments) + Submitting < MaxComments
       /\ \E p \in Procs, post \in DOMAIN posts, parent_id \in 0..MaxComments :
            SubmitBegin(p, post, parent_id, GuestForm.auth, GuestForm.content,
                        GuestForm.nickname, GuestForm.email)
    \/ \E p \in Procs : SubmitParent(p)
    \/ \E p \in Procs : SubmitInsert(p, FALSE)
    \/ \E c \in DOMAIN comments : Approve(c)

GateSpec == GateInit /\ [][GateNext]_vars

\* The listing of the first post as time passes: guests comment and reply,
\* comments are approved and deleted.
ListingNext ==
    \/ /\ Len(comments) + Submitting < MaxComments
       /\ \E p \in Procs, parent_id \in 0..MaxComments :
            SubmitBegin(p, 1, parent_id, GuestForm.auth, GuestForm.content,
                        GuestForm.nickname, GuestForm.email)
    \/ \E p \in Procs : SubmitParent(p)
    \/ \E p \in Procs : SubmitInsert(p, FALSE)
    \/ \E c \in DOMAIN comments : Approve(c)
    \/ \E c \in DOMAIN comments : DeleteComment(c)
    \/ Tick

ListingSpec == ThreadInit /\ [][ListingNext]_vars

\* Every form: with or without a logged-in user, content, nickname, email.
AllForms == {Form(a, c, n, e) : a \in BOOLEAN, c \in BOOLEAN,
                               n \in BOOLEAN, e \in BOOLEAN}

\* Top-level comments submitted to the first post with every form.
FormNext ==
    \/ /\ Len(comments) + Submitting < MaxComments
       /\ \E p \in Procs, f \in AllForms :
            SubmitBegin(p, 1, 0, f.auth, f.content, f.nickname, f.email)
    \/ \E p \in Procs : SubmitInsert(p, FALSE)

FormSpec == ThreadInit /\ [][FormNext]_vars

\* Moderation among the other operations: guests comment on the first post
\* and reply, comments are approved, one handler edits and views the post.
ModerationNext ==
    \/ /\ Len(comments) + Submitting < MaxComments
       /\ \E p \in Procs, parent_id \in 0..MaxComments :
            SubmitBegin(p, 1, parent_id, GuestForm.auth, GuestForm.content,
                        GuestForm.nickname, GuestForm.email)
    \/ \E p \in Procs : SubmitParent(p)
    \/ \E p \in Procs, approvedIn \in BOOLEAN : SubmitInsert(p, approvedIn)
    \/ \E c \in DOMAIN comments : Approve(c)
    \/ LoadPost(1, 1)
    \/ \E st \in {"draft", "published"} :
          SavePost(1, proc[1].inst.title, proc[1].inst.body_markdown, st)
    \/ PostWrite(1)
    \/ /\ posts[1].views < MaxViews
       /\ DetailGet(1, 1)
    \/ DetailUpdate(1)

ModerationSpec == ThreadInit /\ [][ModerationNext]_vars

(***************************************************************************)
(* Properties.                                                             *)
(***************************************************************************)
Item == <<"i", "t", "e", "m">>
Newest == comments[Len(comments)]

\* C1: in every state reached by saves of posts and of categories, every
\* stored record has a non-empty slug, and no two stored records of one
\* table have the same slug.
C1_SlugsNonEmptyAndUnique ==
    /\ \A i \in Alive(posts) :
         /\ posts[i].slug # EmptyStr
         /\ \A j \in Alive(posts) : posts[i].slug = posts[j].slug => i = j
    /\ \A i \in Alive(cats) :
         /\ cats[i].slug # EmptyStr
         /\ \A j \in Alive(cats) : cats[i].slug = cats[j].slug => i = j

\* C1, its case: two posts of one title are stored beside a record whose
\* source had no letter or digit.
C1_Witness ==
    /\ \E i, j \in Alive(posts) : i # j /\ posts[i].title = posts[j].title
    /\ \/ \E i \in Alive(posts) : posts[i].slug = Item
       \/ \E i \in Alive(cats) : TRUE

\* C10: a first save whose slug another stored record took meanwhile is
\* refused with IntegrityError, and leaves both tables as they were.
C10_ConflictingInsertRefused ==
    [][\A p \in Procs :
         ( /\ proc[p].pc = "write"
           /\ proc'[p].pc = "idle"
           /\ proc[p].inst.pk = NoPk
           /\ SlugExists(Table(proc[p].kind), NoPk, proc[p].inst.slug) )
         => /\ last'.result = "IntegrityError"
            /\ posts' = posts
            /\ cats' = cats]_vars

\* C10, its case: two writers probed the same free slug; one has stored its
\* post, the other stands before its INSERT with the same slug.
C10_Witness ==
    \E p \in Procs :
        /\ proc[p].pc = "write"
        /\ proc[p].kind = "Post"
        /\ proc[p].probed
        /\ proc[p].inst.pk = NoPk
        /\ last.op = "save" /\ last.result = "ok" /\ last.probed
        /\ Len(posts) > 0
        /\ posts[Len(posts)].alive
        /\ posts[Len(posts)].slug = proc[p].inst.slug

\* C6: a stored post whose status is published has published_at set.
C6_PublishedHasPublishedAt ==
    \A i \in Alive(posts) :
        posts[i].status = "published" => posts[i].published_at # NoTime

\* C6, its case: a published post whose published_at the hook stamped.
C6_Witness ==
    \E i \in Alive(posts) :
        /\ posts[i].status = "published"
        /\ posts[i].published_at \in 1..MaxClock

\* C7, as claimed: once a stored post has published_at set, no later step
\* changes it.
C7_PublishedAtNeverChanges ==
    [][\A i \in Alive(posts) \cap Alive(posts') :
         posts[i].published_at # NoTime
         => posts'[i].published_at = posts[i].published_at]_vars

\* C8, as claimed: a detail view that completes adds exactly one to the
\* stored view count.
C8_ViewAddsOne ==
    [][\A p \in Procs :
         ( /\ proc[p].pc = "viewing"
           /\ proc'[p].pc = "idle"
           /\ proc[p].inst.pk \in Alive(posts) )
         => posts'[proc[p].inst.pk].views = posts[proc[p].inst.pk].views + 1]_vars

\* C9, as claimed: the stored view count of a post never decreases.
C9_ViewsNeverDecrease ==
    [][\A i \in Alive(posts) \cap Alive(posts') :
         posts'[i].views >= posts[i].views]_vars

\* The referenced parent is no comment, or of another post, or a reply, or
\* not approved.
InvalidParent(post, parent_id) ==
    \/ parent_id \notin Alive(comments)
    \/ comments[parent_id].post # post
    \/ comments[parent_id].parent # 0
    \/ ~comments[parent_id].is_approved

C3_DepthAtMostTwo ==
    \A c \in Alive(comments) :
        comments[c].parent # 0
        => /\ comments[c].parent \in Alive(comments)
           /\ comments[comments[c].parent].parent = 0

\* C3, its case: a submission named an approved reply of its post as its
\* parent, and the lookup did not take it.
C3_Witness ==
    \E p \in Procs :
        /\ req[p].pc = "insert"
        /\ req[p].parent = 0
        /\ req[p].parent_id \in Alive(comments)
        /\ comments[req[p].parent_id].parent # 0
        /\ comments[req[p].parent_id].is_approved
        /\ comments[req[p].parent_id].post = req[p].post

Range(f) == {f[i] : i \in DOMAIN f}
Ascending(f) ==
    \A i, j \in DOMAIN f : i < j => comments[f[i]].created_at <= comments[f[j]].created_at

C11_SlugNeverReassigned ==
    [][\A i \in Alive(posts) \cap Alive(posts') :
         posts'[i].slug = posts[i].slug]_vars

\* C11, its case: a post that got hi-1 by the probe was saved again with a
\* title that normalizes to nothing, after the holder of hi was deleted.
C11_Witness ==
    /\ last.op = "save" /\ last.result = "ok" /\ ~last.probed
    /\ \E i \in Alive(posts) :
         /\ posts[i].title = <<"!", "!">>
         /\ posts[i].slug = <<"h", "i", "-", "1">>
    /\ \A j \in Alive(posts) : posts[j].slug # <<"h", "i">>
    /\ \E j \in DOMAIN posts : ~posts[j].alive

\* The characters a-z, 0-9 and "-".
SlugChars == LowerLetters \cup Digits \cup {"-"}

\* The handler of AssignSpec has the slug that generate_unique_slug returned.
Returned == proc[1].pc = "write" /\ proc[1].probed

Held(slug) == SlugExists(posts, NoPk, slug)

\* The first of base, base-1, base-2, ... that no stored record holds.
FirstFree(base, slug) ==
    IF ~Held(base) THEN slug = base
    ELSE \E n \in 1..Len(posts) :
            /\ slug = Suffixed(base, n)
            /\ ~Held(slug)
            /\ \A m \in 1..(n - 1) : Held(Suffixed(base, m))

\* C12, as claimed: the slug returned has only the characters a-z, 0-9 and
\* "-", is at most 50 long, also with a suffix, and no stored record holds it.
C12_ReturnedSlugWellFormed ==
    Returned =>
        /\ \A k \in DOMAIN proc[1].inst.slug : proc[1].inst.slug[k] \in SlugChars
        /\ Len(proc[1].inst.slug) <= SlugTruncLen
        /\ ~Held(proc[1].inst.slug)

\* C13: the slug returned is the base when no stored record holds it, else
\* base-n for the least n >= 1 that no stored record holds; and when the k
\* stored posts of the same title hold exactly base, base-1, ..., base-(k-1),
\* it is base-k.
C13_LinearProbe ==
    Returned =>
        LET t == proc[1].inst.title
            cut == Truncate(slugify(t), SlugTruncLen)
            b == IF cut = EmptyStr THEN Item ELSE cut
            same == {i \in Alive(posts) : posts[i].title = t}
            k == Cardinality(same)
        IN /\ FirstFree(b, proc[1].inst.slug)
           /\ ( /\ k >= 1
                /\ {posts[i].slug : i \in same} =
                      {b} \cup {b \o <<"-">> \o IntToStr(n) : n \in 1..(k - 1)} )
              => proc[1].inst.slug = b \o <<"-">> \o IntToStr(k)

\* C13, its case: the third post titled Hi is returned hi-2 while hi and
\* hi-1 are stored.
C13_Witness ==
    /\ Returned
    /\ proc[1].inst.title = Hi
    /\ proc[1].inst.slug = <<"h", "i", "-", "2">>
    /\ \E i, j \in Alive(posts) :
         /\ posts[i].slug = <<"h", "i">>
         /\ posts[j].slug = <<"h", "i", "-", "1">>

\* C14: when the source normalizes to nothing, the slug returned is item
\* when no stored record holds it, else item-n for the least n >= 1 that no
\* stored record holds; it is never empty.
C14_EmptySourceGetsItem ==
    Returned =>
        ( slugify(proc[1].inst.title) = EmptyStr
          => /\ proc[1].inst.slug # EmptyStr
             /\ FirstFree(Item, proc[1].inst.slug) )

\* C14, its case: a source without letter or digit is returned item-1
\* while item is stored.
C14_Witness ==
    /\ Returned
    /\ proc[1].inst.title = <<"!", "!">>
    /\ proc[1].inst.slug = <<"i", "t", "e", "m", "-", "1">>
    /\ \E i \in Alive(posts) : posts[i].slug = Item

\* C15: of every stored post, body_html is the rendering of the stored
\* body_markdown and reading_time is the estimate of the stored body_markdown.
C15_DerivedFieldsFresh ==
    \A i \in Alive(posts) :
        /\ posts[i].body_html = render_markdown(posts[i].body_markdown)
        /\ posts[i].reading_time = estimate_reading_time(posts[i].body_markdown)

\* C15, its case: a later save of a stored post has completed and the post,
\* published, holds a body of two words with its rendering.
C15_Witness ==
    /\ last.op = "save" /\ last.result = "ok" /\ ~last.probed
    /\ \E i \in Alive(posts) :
         /\ posts[i].status = "published"
         /\ posts[i].body_markdown = <<" ">> \o Words(2)
         /\ posts[i].body_html =
               <<"<p>", "h", "i", " ", " ", "h", "i", "</p>">>

\* m is an integer nearest to words / 200.
Nearest(m, words) ==
    /\ 2 * (words - WordsPerMinute * m) <= WordsPerMinute
    /\ 2 * (WordsPerMinute * m - words) <= WordsPerMinute

\* C16: the stored reading time of a post is the greater of 1 and the
\* quotient of its word count by 200, rounded to a nearest integer; it is 1
\* for a text without words, 2 for 400 words, and never less than 1.
C16_ReadingTime ==
    \A i \in Alive(posts) :
        LET text == posts[i].body_markdown
            words == WordCount(text)
            m == posts[i].reading_time
        IN /\ m >= 1
           /\ \E r \in 0..(words \div WordsPerMinute + 1) :
                 /\ Nearest(r, words)
                 /\ m = IF r < 1 THEN 1 ELSE r
           /\ text \in {EmptyStr, Blank} => m = 1
           /\ text = Words(2 * WordsPerMinute) => words = 2 * WordsPerMinute /\ m = 2

\* C16, its case: a stored post of exactly 400 words.
C16_Witness ==
    \E i \in Alive(posts) :
        /\ posts[i].body_markdown = Words(2 * WordsPerMinute)
        /\ posts[i].reading_time = 2

\* The listed status changes of a save.
Transitions ==
    {<<"draft", "draft">>, <<"draft", "scheduled">>, <<"draft", "published">>,
     <<"scheduled", "scheduled">>, <<"scheduled", "published">>,
     <<"scheduled", "draft">>,
     <<"published", "published">>, <<"published", "draft">>}

\* C17, as claimed: every step changes the status of a stored post along
\* a listed transition only; published never becomes scheduled.
C17_OnlyListedTransitions ==
    [][\A i \in Alive(posts) \cap Alive(posts') :
         <<posts[i].status, posts'[i].status>> \in Transitions]_vars

\* Has the author both forms, user and complete guest pair, or neither.
ExactlyOneIdentity(row) ==
    \/ (row.user /\ ~(row.nickname /\ row.email))
    \/ (~row.user /\ row.nickname /\ row.email)

C19_ApproveIdempotent ==
    [][\A c \in DOMAIN comments :
         Approve(c)
         => /\ last'.result = "ok"
            /\ comments[c].alive => comments'[c].is_approved
            /\ (comments[c].alive /\ comments[c].is_approved)
                 => /\ comments' = comments
                    /\ posts' = posts
                    /\ cats' = cats]_vars

\* C19, its case: an approved comment was approved again while another
\* comment waits for approval.
C19_Witness ==
    /\ last.op = "approve" /\ last.again
    /\ \E c, d \in Alive(comments) :
         comments[c].is_approved /\ ~comments[d].is_approved

\* C20: in every step, a stored comment that was approved stays approved,
\* and one that becomes approved does so by an approve step on it.
C20_ApprovalOnlyByApprove ==
    [][\A c \in Alive(comments) \cap Alive(comments') :
         /\ comments[c].is_approved => comments'[c].is_approved
         /\ (~comments[c].is_approved /\ comments'[c].is_approved) => Approve(c)]_vars

\* C20, its case: an approved comment has a reply, and its post was saved
\* as a draft and viewed.
C20_Witness ==
    /\ \E c, r \in Alive(comments) :
         comments[c].is_approved /\ comments[r].parent = c
    /\ posts[1].status = "draft"
    /\ posts[1].views > 0

\* C21: published() holds no draft post, no scheduled post, no post whose
\* published_at is later than now, no post without published_at, no deleted
\* post, and every stored published post whose published_at is not later
\* than now.
C21_PublishedFilter ==
    \A i \in DOMAIN posts :
        LET listed == i \in published(posts, now)
        IN /\ listed => posts[i].alive
           /\ posts[i].status = "draft" => ~listed
           /\ posts[i].status = "scheduled" => ~listed
           /\ posts[i].published_at > now => ~listed
           /\ posts[i].published_at = NoTime => ~listed
           /\ ( /\ posts[i].alive
                /\ posts[i].status = "published"
                /\ posts[i].published_at # NoTime
                /\ posts[i].published_at <= now ) => listed

\* C21, its case: a published post is listed beside a published post whose
\* published_at is still to come.
C21_Witness ==
    \E i, j \in Alive(posts) :
        /\ i \in published(posts, now)
        /\ posts[j].status = "published"
        /\ posts[j].published_at > now

\* C24, as claimed: a stored scheduled post whose time the clock has
\* reached is in published().
C24_ScheduledBecomesVisible ==
    \A i \in Alive(posts) :
        ( /\ posts[i].status = "scheduled"
          /\ posts[i].published_at # NoTime
          /\ posts[i].published_at <= now ) => i \in published(posts, now)

\* C24, amended: when the clock reaches the published_at of a stored post
\* of status published, the post enters published() in that step, which
\* writes no row; a post of status scheduled is not in published(),
\* whatever its time.
C24_PublishedFutureBecomesVisible ==
    [][Tick =>
         \A i \in Alive(posts) :
            /\ (posts[i].status = "published" /\ posts[i].published_at = now')
                 => /\ i \notin published(posts, now)
                    /\ i \in published(posts', now')
            /\ posts[i].status = "scheduled" => i \notin published(posts', now')]_vars

\* C24, its case: a published post whose time the clock has just reached
\* is listed, beside a scheduled post of a reached time that is not.
C24_Witness ==
    /\ now = MaxClock
    /\ \E i, j \in Alive(posts) :
         /\ posts[i].status = "published"
         /\ posts[i].published_at = MaxClock
         /\ i \in published(posts, now)
         /\ posts[j].status = "scheduled"
         /\ posts[j].published_at = MaxClock
         /\ j \notin published(posts, now)

\* C25: the save hook leaves published_at as the caller gave it, but for a
\* save to published without published_at, which gets the time of the
\* save; and the write stores the value the hook left.
C25_HookFrame ==
    [][\A p \in Procs :
         /\ \A st \in Status, pa \in PublishedAtInputs :
              CreatePost(p, Hi, EmptyStr, st, pa, EmptyStr)
              => proc'[p].inst.published_at =
                   IF st = "published" /\ pa = NoTime THEN now ELSE pa
         /\ (proc[p].pc = "loaded" /\ proc'[p].pc \in {"probe", "write"})
              => proc'[p].inst.published_at =
                   IF /\ proc'[p].inst.status = "published"
                      /\ proc[p].inst.published_at = NoTime
                   THEN now ELSE proc[p].inst.published_at
         /\ ( /\ proc[p].pc = "write" /\ proc'[p].pc = "idle"
              /\ last'.result = "ok" )
              => LET pk == IF proc[p].inst.pk = NoPk THEN Len(posts')
                           ELSE proc[p].inst.pk
                 IN posts'[pk].published_at = proc[p].inst.published_at]_vars

\* C25, its case: a post stamped by a save to published was saved as a
\* draft or scheduled and has kept the stamp.
C25_Witness ==
    /\ last.op = "save" /\ last.result = "ok" /\ ~last.probed
    /\ \E i \in Alive(posts) :
         /\ posts[i].status \in {"draft", "scheduled"}
         /\ posts[i].published_at \in 1..MaxClock

\* C23: no stored comment is of a post that is gone or a reply to a comment
\* that is gone: a deletion takes the replies of the comment, and the
\* comments of the post, with it.
C23_NoDanglingComment ==
    \A c \in Alive(comments) :
        /\ comments[c].post \in Alive(posts)
        /\ comments[c].parent # 0 => comments[c].parent \in Alive(comments)

\* C23, its case: the last deletion took replies, or the comments of the
\* post, with it, and other comments are still stored.
C23_Witness ==
    /\ last.op \in {"delete", "delete_post"}
    /\ last.cascaded
    /\ Alive(comments) # {}

\* C26: when a reply is stored its parent is a stored approved top-level
\* comment of the same post; a reply and its parent are of one post in
\* every state; and no step changes the parent or the post of a comment
\* that stays stored.
C26_ParentLinkSound ==
    /\ [](\A c \in Alive(comments) :
            comments[c].parent # 0
            => comments[comments[c].parent].post = comments[c].post)
    /\ [][/\ Len(comments') > Len(comments)
             => LET n == comments'[Len(comments')]
                IN n.parent # 0
                   => /\ n.parent \in Alive(comments)
                      /\ comments[n.parent].post = n.post
                      /\ comments[n.parent].parent = 0
                      /\ comments[n.parent].is_approved
          /\ \A c \in DOMAIN comments :
                comments'[c].alive
                => /\ comments'[c].parent = comments[c].parent
                   /\ comments'[c].post = comments[c].post]_vars

\* C26, its case: a reply is stored, and its parent, the one approved
\* comment, has just been approved once more.
C26_Witness ==
    /\ last.op = "approve" /\ last.again
    /\ \E r \in Alive(comments) :
         /\ comments[r].parent # 0
         /\ {c \in Alive(comments) : comments[c].is_approved} = {comments[r].parent}

\* C27, as claimed: a slug returned for a source whose normalization is
\* longer than 50 does not end with a hyphen and has no two hyphens in a
\* row.
C27_TruncatedBaseTrimmed ==
    (Returned /\ Len(slugify(proc[1].inst.title)) > SlugTruncLen) =>
        LET s == proc[1].inst.slug
        IN /\ s[Len(s)] # "-"
           /\ \A k \in 1..(Len(s) - 1) : ~(s[k] = "-" /\ s[k + 1] = "-")

\* C28, as claimed: every stored comment is of a post that accepts
\* comments; a submission for a post with allow_comment off stores nothing.
C28_CommentsOnlyWhenAllowed ==
    \A c \in Alive(comments) : posts[comments[c].post].allow_comment

\* C29: with N posts stored, generate_unique_slug has made at most N
\* existence checks while it probes and at most N + 1 when it has returned;
\* and a save that has begun ends, with the row written or with the
\* refusal of the uniqueness constraint, whatever the body.
C29_ProbeTerminates ==
    /\ [](/\ proc[1].pc = "probe"
             => proc[1].idx - 1 <= Cardinality(Alive(posts))
          /\ (proc[1].pc = "write" /\ proc[1].probed)
             => proc[1].idx <= Cardinality(Alive(posts)) + 1)
    /\ \A b \in BodyTexts :
          (proc[1].pc \in {"probe", "write"} /\ proc[1].inst.body_markdown = b)
          ~> (proc[1].pc = "idle" /\ last.op = "save")

\* C29, its case: the probe has returned after one check more than there
\* are posts stored, the most there can be, for a post with a body.
C29_Witness ==
    /\ proc[1].pc = "write" /\ proc[1].probed
    /\ Cardinality(Alive(posts)) = MaxSlugRows - 1
    /\ proc[1].idx = Cardinality(Alive(posts)) + 1
    /\ proc[1].inst.body_markdown # EmptyStr

\* C22: whatever the order in which the rows are met, the main list is one
\* and the same sequence of the posts of published(): every featured post
\* before every other, among equals of that the later published_at first,
\* among equals of both the greater id first.
C22_FeaturedFirstTotal ==
    LET S == published(posts, now)
    IN /\ \A s1, s2 \in Scans(Alive(posts)) : PostList(now, s1) = PostList(now, s2)
       /\ \A scan \in Scans(Alive(posts)) :
            LET r == PostList(now, scan)
            IN /\ Len(r) = Cardinality(S)
               /\ {r[k] : k \in DOMAIN r} = S
               /\ \A i, j \in DOMAIN r :
                    i < j =>
                      /\ posts[r[j]].is_featured => posts[r[i]].is_featured
                      /\ posts[r[i]].is_featured = posts[r[j]].is_featured
                           => posts[r[i]].published_at >= posts[r[j]].published_at
                      /\ ( /\ posts[r[i]].is_featured = posts[r[j]].is_featured
                           /\ posts[r[i]].published_at = posts[r[j]].published_at )
                           => r[i] > r[j]

\* C22, its case: a featured post is listed before a post that is not
\* featured and was published later.
C22_Witness ==
    \E a, b \in published(posts, now) :
        /\ posts[a].is_featured /\ ~posts[b].is_featured
        /\ posts[a].published_at < posts[b].published_at
        /\ \A scan \in Scans(Alive(posts)) : PostList(now, scan) = <<a, b>>

\* The year a time falls in.
YearOf(t) == (t + 2) \div 2

\* Word q occurs in text at some offset, letter for letter without case.
Occurs(text, q) ==
    \E k \in 0..(Len(text) - Len(q)) :
        \A j \in 1..Len(q) : Lower(text[k + j]) = Lower(q[j])

\* The listings at the present time, each with what it selects of post i.
Listings(i) ==
    {<<PostListed(now), TRUE>>, <<PostSitemap_items(now), TRUE>>}
    \cup {<<category_list(now, sl),
             posts[i].category # 0 /\ cats[posts[i].category].slug = sl>> :
             sl \in FilterSlugs}
    \cup {<<tag_list(now, tag), tag \in posts[i].tags>> : tag \in FilterTags}
    \cup {<<archive_year(now, y), YearOf(posts[i].published_at) = y>> :
             y \in FilterYears}
    \cup {<<search(now, q),
             \/ \A k \in DOMAIN q : q[k] = " "
             \/ Occurs(posts[i].title, Strip(q))
             \/ Occurs(posts[i].body_markdown, Strip(q))>> : q \in FilterQueries}

\* C30: a post that is in the main list, the list of a category, of a tag,
\* of a year, of a search or in the sitemap is stored, is published and has
\* a published_at that is not later than now; and a post is in such a list
\* exactly when it is in published() and the list's own condition holds of
\* it.
C30_ListingsWithinPublished ==
    \A i \in DOMAIN posts :
        \A l \in Listings(i) :
            /\ i \in l[1]
                 => /\ posts[i].alive
                    /\ posts[i].status = "published"
                    /\ posts[i].published_at # NoTime
                    /\ posts[i].published_at <= now
            /\ i \in l[1] <=> (i \in published(posts, now) /\ l[2])

\* C30, its case: a published post is listed under its category, its tag,
\* its year and a word of its body, and not under the other category, the
\* year before or a word it does not have.
C30_Witness ==
    \E i \in published(posts, now) :
        /\ posts[i].title = <<"!", "!">>
        /\ category_list(now, <<"a">>) = {i}
        /\ tag_list(now, "t") = {i}
        /\ archive_year(now, 2) = {i}
        /\ search(now, <<" ", "H">>) = {i}
        /\ PostListed(now) = {i}
        /\ category_list(now, <<"b">>) = {}
        /\ archive_year(now, 1) = {}
        /\ search(now, <<"b">>) = {}

\* C31, as claimed: the detail view takes up a post only when the post is in
\* published(), and the update of the view adds to the views of no post
\* that is a draft or scheduled.
C31_DetailOnlyPublished ==
    [][\A p \in Procs :
         /\ \A id \in DOMAIN posts :
              DetailGet(p, id) => id \in published(posts, now)
         /\ DetailUpdate(p)
              => \A i \in Alive(posts) :
                    posts[i].status \in {"draft", "scheduled"}
                    => posts'[i].views = posts[i].views]_vars

=============================================================================
